---------------------------- MODULE Spec2Model ----------------------------
(***************************************************************************)
(* Hub firmware of the greenhouse system: the node table `greenhouses`,   *)
(* telemetry ingestion (onDataReceived), control sends (sendControlToNode, *)
(* sendControlToAllNodes), the reconciliation cycle against the remote     *)
(* store (syncWithFirebase) and the settings copy in EEPROM.               *)
(*                                                                         *)
(* Floats are held in tenths (25.0 is 250, 0.5 is 5); chars are held as    *)
(* their character codes; millis() is an unsigned counter of ClockBits     *)
(* bits.                                                                   *)
(***************************************************************************)
EXTENDS Integers, Sequences, FiniteSets, TLC

(* ------------------------------ bounds -------------------------------- *)

\* width of the millisecond counter in the model
ClockBits == 20
\* how many operations of the environment and of the main loop one run holds
MaxOps == 3
\* how many writes of the remote client one run holds
MaxEdits == 1
\* how many times the clock moves in one run
MaxTicks == 1

(* ------------------------- program constants -------------------------- *)

\* the number of nodes; config.h, which sets it, is not among the sources,
\* and the model is run with two nodes
MAX_GREENHOUSES == 2
STALE_TIMEOUT == 300000
SensorDataSize == 24
CmdNone == 0
CmdOpen == 79
CmdClose == 67
CmdStop == 83
DefaultThreshold == 250
DefaultHysteresis == 5
\* the upper ends of the ranges loadSettingsFromEEPROM accepts (50 and 5)
MaxThreshold == 500
MaxHysteresis == 50

ClockMod == 2 ^ ClockBits
Nodes == 1 .. MAX_GREENHOUSES
Slots == 0 .. MAX_GREENHOUSES
Commands == {CmdOpen, CmdClose, CmdStop}

DefaultSchedule ==
  [openHour |-> 8, openMinute |-> 0, closeHour |-> 18, closeMinute |-> 0,
   scheduleEnabled |-> FALSE]

DefaultSettings ==
  [temperatureThreshold |-> DefaultThreshold, hysteresis |-> DefaultHysteresis,
   autoMode |-> TRUE, manualCommand |-> CmdNone, schedule |-> DefaultSchedule]

ZeroSensor ==
  [nodeId |-> 0, temperature |-> 0, humidity |-> 0, pressure |-> 0,
   ventStatus |-> 0, timestamp |-> 0]

\* a slot of the zero-initialised global array with its member initialisers
InitialGreenhouse ==
  [sensor |-> ZeroSensor, settings |-> DefaultSettings, isOnline |-> FALSE,
   lastSeen |-> 0]

(* ----------------------- inputs of the environment -------------------- *)

\* the two readings a node sends (temperature and humidity in tenths)
Readings ==
  { [temperature |-> 215, humidity |-> 400, pressure |-> 10130,
     ventStatus |-> 0, timestamp |-> 1000],
    [temperature |-> 305, humidity |-> 550, pressure |-> 10090,
     ventStatus |-> 2, timestamp |-> 2000] }

\* payload lengths the radio delivers: a SensorData and a shorter frame
PayloadLengths == {SensorDataSize, SensorDataSize - 1}
\* node ids on the air: 0, the valid ones, and one past the table
PayloadNodeIds == 0 .. (MAX_GREENHOUSES + 1)

\* how far the clock moves between two operations
TickSet == {STALE_TIMEOUT - 1, STALE_TIMEOUT, STALE_TIMEOUT + 1}

\* what the remote client writes into a settings document
RemoteThresholds == {300}
RemoteHysteresis == {10}
RemoteModes == {"auto", "manual"}
RemoteManualControls == {"open", "close", "stop", "toggle"}

\* a settings document of the remote store: each key absent (<<>>) or <<v>>
EmptyDoc ==
  [temperatureThreshold |-> <<>>, hysteresis |-> <<>>, mode |-> <<>>,
   ventStatus |-> <<>>, schedule |-> <<>>, manualControl |-> <<>>]

\* a settings document a remote client left in the store before the hub
\* booted: it holds no key of the hub's own upload
ClientDoc ==
  [EmptyDoc EXCEPT !.temperatureThreshold = <<300>>, !.hysteresis = <<10>>,
                   !.mode = <<"manual">>, !.manualControl = <<"open">>]

\* the settings documents the store may hold when the hub boots
BootDocs == {EmptyDoc, ClientDoc}

\* floats an EEPROM slot may hold in the place of temperatureThreshold when
\* the hub boots: the ends of the range, values next to them, and what
\* arbitrary bytes decode to
StoredThresholds ==
  { [class |-> "finite", tenths |-> n] : n \in {-1, 0, 250, 500, 501, 9990} }
  \cup { [class |-> c, tenths |-> 0] : c \in {"nan", "+inf", "-inf"} }

\* the same for hysteresis
StoredHysteresis ==
  { [class |-> "finite", tenths |-> n] : n \in {-10, 0, 5, 50, 51} }
  \cup { [class |-> c, tenths |-> 0] : c \in {"nan", "+inf", "-inf"} }

\* a schedule other than the default one
OtherSchedule ==
  [openHour |-> 7, openMinute |-> 30, closeHour |-> 19, closeMinute |-> 15,
   scheduleEnabled |-> TRUE]

\* the fields of a slot that are not validated
StoredRest ==
  { [autoMode |-> TRUE, manualCommand |-> CmdNone, schedule |-> DefaultSchedule],
    [autoMode |-> FALSE, manualCommand |-> CmdOpen, schedule |-> OtherSchedule] }

\* the records a slot of the EEPROM may hold when the hub boots
StoredRecords ==
  { [temperatureThreshold |-> t, hysteresis |-> h, autoMode |-> r.autoMode,
     manualCommand |-> r.manualCommand, schedule |-> r.schedule] :
    t \in StoredThresholds, h \in StoredHysteresis, r \in StoredRest }

VARIABLES
  greenhouses,    \* GreenhouseData greenhouses[MAX_GREENHOUSES + 1]
  now,            \* millis()
  eeprom,         \* EEPROM slots: slot i-1 holds the settings of node i
  settingsDoc,    \* remote store: greenhouses/{i}/settings
  currentData,    \* remote store: greenhouses/{i}/currentData, <<>> or <<doc>>
  lastControlAll, \* remote store: system/lastControlAll, <<>> or <<doc>>
  pc,             \* position of loop(): "idle", or inside syncWithFirebase
  idx,            \* loop index i of syncWithFirebase
  sent,           \* ControlMessages handed to esp_now_send by the current operation
  calls,          \* calls of sendControlToNode made by the latest step
  lastOp,         \* the latest step and its inputs
  cycleStart,     \* settings documents and local settings when the cycle began
  fetched,        \* nodes whose settings document the current cycle has read
  repeated,       \* nodes whose document the directly preceding cycle had read
  faults,         \* nodes for which a call to the store failed in the current cycle
  cmdSends,       \* per node: pulled commands sent since the last write of manualControl
  ops,            \* operations so far
  ticks,          \* moves of the clock so far
  edits,          \* writes of the remote client so far
  age,            \* per node: the time that has really passed since its latest
                  \* telemetry was taken in (since boot, if there was none)
  json            \* FirebaseJson json of the upload loop: the values set so far

vars ==
  <<greenhouses, now, eeprom, settingsDoc, currentData, lastControlAll, pc, idx,
    sent, calls, lastOp, cycleStart, fetched, repeated, faults, cmdSends, ops,
    ticks, edits, age, json>>

(* ------------------------------ liveness ------------------------------ *)

\* unsigned subtraction millis() - lastSeen
Elapsed(t, last) == (t - last) % ClockMod

\* the push loop uploads every node that was ever seen
PushLiveSeenOnly(g, t) == g.isOnline

\* the condition under which the push loop uploads node g
PushLive(g, t) == g.isOnline /\ Elapsed(t, g.lastSeen) < STALE_TIMEOUT

\* the condition under which sendControlToAllNodes skips node g
BulkSkips(g, t) == ~g.isOnline \/ Elapsed(t, g.lastSeen) > STALE_TIMEOUT

\* node i is live now: seen, and seen less than STALE_TIMEOUT ago
IsLive(i) == PushLive(greenhouses[i], now)

(* ------------------------- telemetry ingestion ------------------------ *)

ValidNodeIdOffByOne(id) == ~(id < 0 \/ id > MAX_GREENHOUSES)

\* the node id check of onDataReceived
ValidNodeId(id) == ~(id < 1 \/ id > MAX_GREENHOUSES)

SensorOf(p) ==
  [nodeId |-> p.nodeId, temperature |-> p.temperature, humidity |-> p.humidity,
   pressure |-> p.pressure, ventStatus |-> p.ventStatus, timestamp |-> p.timestamp]

\* the table after onDataReceived(mac, data, len) at time t
Ingest(gh, p, t) ==
  IF p.len = SensorDataSize /\ ValidNodeId(p.nodeId)
  THEN [gh EXCEPT ![p.nodeId] =
          [@ EXCEPT !.sensor = SensorOf(p), !.isOnline = TRUE, !.lastSeen = t]]
  ELSE gh

\* the payloads delivered: every reading under every node id as a whole
\* SensorData, and frames of another length
Payloads ==
  { [len |-> l, nodeId |-> n, temperature |-> r.temperature,
     humidity |-> r.humidity, pressure |-> r.pressure,
     ventStatus |-> r.ventStatus, timestamp |-> r.timestamp] :
    l \in {SensorDataSize}, n \in PayloadNodeIds, r \in Readings }
  \cup
  { [len |-> l, nodeId |-> n, temperature |-> 215, humidity |-> 400,
     pressure |-> 10130, ventStatus |-> 0, timestamp |-> 1000] :
    l \in PayloadLengths \ {SensorDataSize}, n \in Nodes }


(* ---------------------------- control send ---------------------------- *)

\* the ControlMessage sendControlToNode fills in for node nodeId
ControlMessageOf(g, nodeId) ==
  [targetNodeId |-> nodeId,
   tempThreshold |-> g.settings.temperatureThreshold,
   hysteresis |-> g.settings.hysteresis,
   autoMode |-> g.settings.autoMode,
   manualCommand |-> g.settings.manualCommand]

\* sendControlToNode without its check of isOnline
SendControlToNodeUnchecked(L, nodeId, txOk) ==
  LET g == L.gh[nodeId]
      cleared == [L.gh EXCEPT ![nodeId].settings.manualCommand = CmdNone]
  IN
  [gh |-> cleared,
   out |-> Append(L.out, ControlMessageOf(g, nodeId)),
   calls |-> Append(L.calls,
               [nodeId |-> nodeId, transmitted |-> TRUE, result |-> txOk,
                after |-> cleared[nodeId].settings.manualCommand])]

\* sendControlToNode(nodeId) on the local state L = [gh, out, calls]:
\* gh is the table, out the messages handed to esp_now_send, calls the log
\* of the calls; txOk is the result of esp_now_send
SendControlToNode(L, nodeId, txOk) ==
  LET g == L.gh[nodeId]
      cleared == [L.gh EXCEPT ![nodeId].settings.manualCommand = CmdNone]
  IN
  IF ~g.isOnline
  THEN [L EXCEPT !.calls =
          Append(@, [nodeId |-> nodeId, transmitted |-> FALSE, result |-> FALSE,
                     after |-> g.settings.manualCommand])]
  ELSE [gh |-> cleared,
        out |-> Append(L.out, ControlMessageOf(g, nodeId)),
        calls |-> Append(L.calls,
                    [nodeId |-> nodeId, transmitted |-> TRUE, result |-> txOk,
                     after |-> cleared[nodeId].settings.manualCommand])]

\* only Open turns autoMode off
BulkSettingsOpenOnly(s, command) ==
  [s EXCEPT !.manualCommand = command,
            !.autoMode = IF command = CmdOpen THEN FALSE ELSE @]

\* the settings of a node sendControlToAllNodes does not skip
BulkSettings(s, command) ==
  [s EXCEPT !.manualCommand = command,
            !.autoMode = IF command = CmdOpen \/ command = CmdClose
                         THEN FALSE ELSE @]

\* one iteration of the loop of sendControlToAllNodes
BulkStep(L, i, command, t, txOk) ==
  IF BulkSkips(L.gh[i], t)
  THEN L
  ELSE SendControlToNode(
         [L EXCEPT !.gh[i].settings = BulkSettings(@, command)], i, txOk)

RECURSIVE BulkLoop(_, _, _, _, _)
BulkLoop(L, i, command, t, txOk) ==
  IF i > MAX_GREENHOUSES
  THEN L
  ELSE BulkLoop(BulkStep(L, i, command, t, txOk), i + 1, command, t, txOk)

\* the record written to system/lastControlAll
LastControlAllJson(command, t) ==
  [action |-> IF command = CmdOpen THEN "open" ELSE "close", timestamp |-> t]

(* ------------------------------ EEPROM -------------------------------- *)

\* A float as the bytes of an EEPROM slot hold it: a finite number, a NaN or
\* an infinity.  The table itself only ever holds finite numbers (tenths).
Finite(n) == [class |-> "finite", tenths |-> n]
NaN == [class |-> "nan", tenths |-> 0]
PosInf == [class |-> "+inf", tenths |-> 0]
NegInf == [class |-> "-inf", tenths |-> 0]

\* isnan(f), f < n and f > n on stored floats; every comparison with a NaN
\* is false
IsNan(f) == f.class = "nan"
FloatLt(f, n) == f.class = "-inf" \/ (f.class = "finite" /\ f.tenths < n)
FloatGt(f, n) == f.class = "+inf" \/ (f.class = "finite" /\ f.tenths > n)

\* the validation without its upper limit
ValidatedFloatNoUpper(f, max, default) ==
  IF IsNan(f) \/ FloatLt(f, 0) THEN default ELSE f.tenths

\* "Validate and apply defaults if needed", for one float field
ValidatedFloat(f, max, default) ==
  IF IsNan(f) \/ FloatLt(f, 0) \/ FloatGt(f, max) THEN default ELSE f.tenths

\* EEPROM.put of one GreenhouseSettings: the bytes of the struct
StoredRecord(s) ==
  [s EXCEPT !.temperatureThreshold = Finite(@), !.hysteresis = Finite(@)]

\* EEPROM.get of one slot followed by the validation of the two floats
LoadedRecord(r) ==
  [r EXCEPT
     !.temperatureThreshold = ValidatedFloat(@, MaxThreshold, DefaultThreshold),
     !.hysteresis = ValidatedFloat(@, MaxHysteresis, DefaultHysteresis)]

\* every node is written to slot 0
SavedSettingsOneSlot(gh) ==
  [a \in 0 .. (MAX_GREENHOUSES - 1) |-> StoredRecord(gh[MAX_GREENHOUSES].settings)]

\* saveSettingsToEEPROM: slot i-1 receives the settings of node i
SavedSettings(gh) ==
  [a \in 0 .. (MAX_GREENHOUSES - 1) |-> StoredRecord(gh[a + 1].settings)]

\* loadSettingsFromEEPROM: node i receives slot i-1, validated
LoadedSettings(gh, ee) ==
  [i \in Slots |->
     IF i \in Nodes THEN [gh[i] EXCEPT !.settings = LoadedRecord(ee[i - 1])]
     ELSE gh[i]]

(* ------------------------- reconciliation cycle ----------------------- *)

VentStatusString(v) ==
  CASE v = 0 -> "closed"
    [] v = 1 -> "opening"
    [] v = 2 -> "open"
    [] v = 3 -> "closing"
    [] OTHER -> "unknown"

\* the document the push loop writes to greenhouses/{i}/currentData
CurrentDataJson(g) ==
  [nodeId |-> g.sensor.nodeId, temperature |-> g.sensor.temperature,
   humidity |-> g.sensor.humidity, pressure |-> g.sensor.pressure,
   ventStatus |-> g.sensor.ventStatus, timestamp |-> g.sensor.timestamp]

\* the document the push loop writes to greenhouses/{i}/settings; setJSON
\* replaces the whole document, so no manualControl key is left
SettingsJson(g) ==
  [temperatureThreshold |-> <<g.settings.temperatureThreshold>>,
   hysteresis |-> <<g.settings.hysteresis>>,
   mode |-> <<IF g.settings.autoMode THEN "auto" ELSE "manual">>,
   ventStatus |-> <<VentStatusString(g.sensor.ventStatus)>>,
   schedule |-> <<g.settings.schedule>>,
   manualControl |-> <<>>]

\* manualCmd of the pull loop for the string read from manualControl
ManualCmdOf(command) ==
  IF command = "open" THEN CmdOpen
  ELSE IF command = "close" THEN CmdClose
  ELSE IF command = "stop" THEN CmdStop
  ELSE CmdNone

\* "Extract threshold"
PullThreshold(L, doc, i, txOk) ==
  IF doc.temperatureThreshold # <<>>
     /\ doc.temperatureThreshold[1] # L.gh[i].settings.temperatureThreshold
  THEN SendControlToNode(
         [L EXCEPT !.gh[i].settings.temperatureThreshold =
                      doc.temperatureThreshold[1]], i, txOk)
  ELSE L

\* the hysteresis is applied and the send is left for later
PullHysteresisDeferred(L, doc, i, txOk) ==
  IF doc.hysteresis # <<>> /\ doc.hysteresis[1] # L.gh[i].settings.hysteresis
  THEN [L EXCEPT !.gh[i].settings.hysteresis = doc.hysteresis[1]]
  ELSE L

\* "Extract hysteresis"
PullHysteresis(L, doc, i, txOk) ==
  IF doc.hysteresis # <<>> /\ doc.hysteresis[1] # L.gh[i].settings.hysteresis
  THEN SendControlToNode(
         [L EXCEPT !.gh[i].settings.hysteresis = doc.hysteresis[1]], i, txOk)
  ELSE L

\* "Extract mode"
PullMode(L, doc, i, txOk) ==
  IF doc.mode # <<>> /\ (doc.mode[1] = "auto") # L.gh[i].settings.autoMode
  THEN SendControlToNode(
         [L EXCEPT !.gh[i].settings.autoMode = (doc.mode[1] = "auto")], i, txOk)
  ELSE L

\* whether "Extract manual control command" finds a command to act on
HasManualCmd(doc) ==
  doc.manualControl # <<>> /\ ManualCmdOf(doc.manualControl[1]) # CmdNone

\* "Extract manual control command", the local part
PullManual(L, doc, i, txOk) ==
  IF HasManualCmd(doc)
  THEN SendControlToNode(
         [L EXCEPT !.gh[i].settings.manualCommand =
                      ManualCmdOf(doc.manualControl[1])], i, txOk)
  ELSE L

\* the three settings keys of the pull loop, in the order of the code
PullSettings(L, doc, i, txOk) ==
  PullMode(PullHysteresis(PullThreshold(L, doc, i, txOk), doc, i, txOk),
           doc, i, txOk)

\* getJSON answers without a check of what kind of value came back
IsJsonDocUnchecked(fetchOk, doc) == doc # EmptyDoc

\* getJSON succeeded and dataType() is "json"; a path that holds nothing
\* comes back as "null"
IsJsonDoc(fetchOk, doc) == fetchOk /\ doc # EmptyDoc

\* the document after updateNode with manualControl = null
ClearedDoc(doc) == [doc EXCEPT !.manualControl = <<>>]


(* ------------------------------ the state ------------------------------ *)

\* no cycle is being looked at
NoCycle == [docs |-> <<>>, settings |-> <<>>]

SettingsOf(gh) == [i \in Nodes |-> gh[i].settings]

Init ==
  /\ greenhouses = [i \in Slots |-> InitialGreenhouse]
  /\ now = 0
  /\ eeprom = SavedSettings([i \in Slots |-> InitialGreenhouse])
  /\ settingsDoc \in [Nodes -> BootDocs]
  /\ currentData = [i \in Nodes |-> <<>>]
  /\ lastControlAll = <<>>
  /\ pc = "idle"
  /\ idx = 0
  /\ sent = <<>>
  /\ calls = <<>>
  /\ lastOp = [op |-> "boot"]
  /\ cycleStart = NoCycle
  /\ fetched = {}
  /\ repeated = {}
  /\ faults = {}
  /\ cmdSends = [i \in Nodes |-> 0]
  /\ ops = 0
  /\ ticks = 0
  /\ edits = 0
  /\ age = [i \in Nodes |-> 0]
  /\ json = <<>>

\* The handlers run one at a time on the main loop: while syncWithFirebase is
\* between its steps (pc is not "idle") no other operation takes place.
\* sent, calls, lastOp, cycleStart, fetched, repeated, faults, cmdSends and age
\* record what the handlers did and what happened to them, and are read by
\* the properties only.

\* what an operation outside the cycle does to the bookkeeping of the cycle
LeavesCycle ==
  /\ cycleStart' = NoCycle
  /\ fetched' = {}
  /\ repeated' = {}
  /\ faults' = {}

\* the radio delivers payload p: onDataReceived
OnDataReceived(p) ==
  /\ pc = "idle"
  /\ ops < MaxOps
  /\ greenhouses' = Ingest(greenhouses, p, now)
  /\ lastOp' = [op |-> "recv", len |-> p.len, nodeId |-> p.nodeId]
  /\ sent' = <<>>
  /\ calls' = <<>>
  /\ ops' = ops + 1
  /\ LeavesCycle
  /\ UNCHANGED <<now, eeprom, settingsDoc, currentData, lastControlAll, pc, idx,
                 cmdSends, edits, ticks, json>>
  /\ age' = IF p.len = SensorDataSize /\ ValidNodeId(p.nodeId)
            THEN [age EXCEPT ![p.nodeId] = 0] ELSE age

\* time passes between two operations
Tick(d) ==
  /\ pc = "idle"
  /\ ops < MaxOps
  /\ ticks < MaxTicks
  /\ ticks' = ticks + 1
  /\ now' = (now + d) % ClockMod
  /\ lastOp' = [op |-> "tick", d |-> d]
  /\ sent' = <<>>
  /\ calls' = <<>>
  /\ ops' = ops + 1
  /\ LeavesCycle
  /\ UNCHANGED <<greenhouses, eeprom, settingsDoc, currentData, lastControlAll,
                 pc, idx, cmdSends, edits, json>>
  /\ age' = [i \in Nodes |-> age[i] + d]

\* the keys a remote client edits, with the values it writes
RemoteWrites ==
  ({"temperatureThreshold"} \X RemoteThresholds)
  \cup ({"hysteresis"} \X RemoteHysteresis)
  \cup ({"mode"} \X RemoteModes)
  \cup ({"manualControl"} \X RemoteManualControls)

\* a remote client writes one key of greenhouses/{i}/settings
RemoteEdit(i, w) ==
  /\ pc = "idle"
  /\ ops < MaxOps
  /\ edits < MaxEdits
  /\ settingsDoc' = [settingsDoc EXCEPT ![i][w[1]] = <<w[2]>>]
  /\ cmdSends' = IF w[1] = "manualControl"
                 THEN [cmdSends EXCEPT ![i] = 0] ELSE cmdSends
  /\ lastOp' = [op |-> "edit", node |-> i, key |-> w[1], value |-> w[2]]
  /\ sent' = <<>>
  /\ calls' = <<>>
  /\ ops' = ops + 1
  /\ edits' = edits + 1
  /\ LeavesCycle
  /\ UNCHANGED <<greenhouses, now, eeprom, currentData, lastControlAll, pc, idx,
                 ticks, age, json>>

\* sendControlToAllNodes(command); online is WiFi connected and Firebase
\* ready, wOk the result of setJSON, txOk the result of esp_now_send
SendControlToAllNodes(command, online, wOk, txOk) ==
  LET L == BulkLoop([gh |-> greenhouses, out |-> <<>>, calls |-> <<>>], 1,
                    command, now, txOk)
  IN
  /\ pc = "idle"
  /\ ops < MaxOps
  /\ greenhouses' = L.gh
  /\ sent' = L.out
  /\ calls' = L.calls
  /\ lastControlAll' = IF online /\ wOk
                       THEN <<LastControlAllJson(command, now)>>
                       ELSE lastControlAll
  /\ lastOp' = [op |-> "bulk", command |-> command]
  /\ ops' = ops + 1
  /\ LeavesCycle
  /\ UNCHANGED <<now, eeprom, settingsDoc, currentData, pc, idx, cmdSends, edits,
                 ticks, age, json>>

\* syncWithFirebase is entered; ready is Firebase.ready()
SyncStart(ready) ==
  /\ pc = "idle"
  /\ ops < MaxOps
  /\ ops' = ops + 1
  /\ sent' = <<>>
  /\ calls' = <<>>
  /\ IF ready
     THEN /\ pc' = "push"
          /\ idx' = 1
          /\ cycleStart' = [docs |-> settingsDoc,
                            settings |-> SettingsOf(greenhouses)]
          /\ repeated' = IF lastOp.op = "pull" THEN fetched ELSE {}
          /\ fetched' = {}
          /\ faults' = {}
          /\ lastOp' = [op |-> "sync"]
     ELSE /\ lastOp' = [op |-> "notReady"]
          /\ LeavesCycle
          /\ UNCHANGED <<pc, idx>>
  /\ UNCHANGED <<greenhouses, now, eeprom, settingsDoc, currentData,
                 lastControlAll, cmdSends, edits, ticks, age, json>>

\* each node is downloaded right after its upload
AfterPushInterleaved(i) == [pc |-> "pull", idx |-> i]

\* where syncWithFirebase stands after the upload of node i: the upload loop
\* runs over all nodes, and the download loop starts after it
AfterPush(i) ==
  IF i = MAX_GREENHOUSES
  THEN [pc |-> "pull", idx |-> 1]
  ELSE [pc |-> "push", idx |-> i + 1]

\* one iteration of the upload loop; dataOk and setOk are the results of the
\* two setJSON calls
PushNode(dataOk, setOk) ==
  LET g == greenhouses[idx]
      live == PushLive(g, now)
  IN
  /\ pc = "push"
  /\ currentData' = IF live /\ dataOk
                    THEN [currentData EXCEPT ![idx] = <<CurrentDataJson(g)>>]
                    ELSE currentData
  /\ settingsDoc' = IF live /\ setOk
                    THEN [settingsDoc EXCEPT ![idx] = SettingsJson(g)]
                    ELSE settingsDoc
  /\ lastOp' = [op |-> "push", node |-> idx, pushed |-> live,
                dataOk |-> live /\ dataOk, setOk |-> live /\ setOk]
  /\ calls' = <<>>
  /\ faults' = IF live /\ ~(dataOk /\ setOk) THEN faults \cup {idx} ELSE faults
  /\ pc' = AfterPush(idx).pc
  /\ idx' = AfterPush(idx).idx
  /\ UNCHANGED <<greenhouses, now, eeprom, lastControlAll, sent, cycleStart,
                 fetched, repeated, cmdSends, ops, edits, ticks, age, json>>

Min(a, b) == IF a < b THEN a ELSE b

\* one iteration of the download loop; fetchOk is the result of getJSON,
\* clearOk of updateNode, txOk of esp_now_send; saved records whether the
\* iteration called saveSettingsToEEPROM
PullNode(fetchOk, clearOk, txOk) ==
  LET doc == settingsDoc[idx]
      isJson == IsJsonDoc(fetchOk, doc)
      L0 == [gh |-> greenhouses, out |-> <<>>, calls |-> <<>>]
      L3 == PullSettings(L0, doc, idx, txOk)
      L == PullManual(L3, doc, idx, txOk)
      clears == isJson /\ HasManualCmd(doc)
  IN
  /\ pc = "pull"
  /\ IF isJson
     THEN /\ greenhouses' = L.gh
          /\ sent' = sent \o L.out
          /\ calls' = L.calls
          /\ eeprom' = SavedSettings(L.gh)
          /\ settingsDoc' = IF clears /\ clearOk
                            THEN [settingsDoc EXCEPT ![idx] = ClearedDoc(doc)]
                            ELSE settingsDoc
          /\ fetched' = fetched \cup {idx}
          /\ cmdSends' = [cmdSends EXCEPT
                            ![idx] = Min(2, @ + Len(L.out) - Len(L3.out))]
     ELSE /\ calls' = <<>>
          /\ UNCHANGED <<greenhouses, sent, eeprom, settingsDoc, fetched, cmdSends>>
  /\ faults' = IF ~fetchOk \/ (clears /\ ~clearOk)
               THEN faults \cup {idx} ELSE faults
  /\ lastOp' = [op |-> "pull", node |-> idx, fetchOk |-> fetchOk,
                fetched |-> isJson, cleared |-> clears /\ clearOk,
                saved |-> isJson]
  /\ IF idx = MAX_GREENHOUSES
     THEN pc' = "idle" /\ idx' = 0
     ELSE pc' = pc /\ idx' = idx + 1
  /\ UNCHANGED <<now, currentData, lastControlAll, cycleStart, repeated, ops, edits,
                 ticks, age, json>>

Next ==
  \/ \E p \in Payloads : OnDataReceived(p)
  \/ \E d \in TickSet : Tick(d)
  \/ \E i \in Nodes, w \in RemoteWrites : RemoteEdit(i, w)
  \/ \E c \in Commands, online \in BOOLEAN, wOk \in BOOLEAN, txOk \in BOOLEAN :
        SendControlToAllNodes(c, online, wOk, txOk)
  \/ \E ready \in BOOLEAN : SyncStart(ready)
  \/ \E dataOk \in BOOLEAN, setOk \in BOOLEAN : PushNode(dataOk, setOk)
  \/ \E fetchOk \in BOOLEAN, clearOk \in BOOLEAN, txOk \in BOOLEAN :
        PullNode(fetchOk, clearOk, txOk)

Spec == Init /\ [][Next]_vars

(* ------------------- the millisecond counter wraps -------------------- *)

\* spans of time in which the counter of ClockBits bits comes round: one
\* millisecond short of a full turn, a full turn, and a full turn and a bit
\* less than the timeout
WrapTicks == {ClockMod - 1, ClockMod, ClockMod + STALE_TIMEOUT - 1}

\* the hub as in Spec, left running for so long that millis() wraps
NextWrap ==
  \/ \E d \in WrapTicks : Tick(d)
  \/ Next

SpecWrap == Init /\ [][NextWrap]_vars

(* ------------- telemetry arriving in the middle of a cycle ------------ *)

\* onDataReceived is the receive callback of the radio: it runs in the
\* task of the radio and may run between any two statements of loop().  The
\* upload loop reads the six fields of greenhouses[i].sensor one json.set
\* after the other.  The copy made by the callback is taken as a whole here,
\* the most favourable case.

\* the fields of the snapshot in the order the upload loop sets them
SensorFields ==
  <<"nodeId", "temperature", "humidity", "pressure", "ventStatus", "timestamp">>

\* the document made of the values set so far, once all six are set
JsonDoc(j) ==
  [nodeId |-> j[1], temperature |-> j[2], humidity |-> j[3], pressure |-> j[4],
   ventStatus |-> j[5], timestamp |-> j[6]]

\* onDataReceived, whatever loop() is doing
ReceiveCallback(p) ==
  /\ ops < MaxOps
  /\ greenhouses' = Ingest(greenhouses, p, now)
  /\ age' = IF p.len = SensorDataSize /\ ValidNodeId(p.nodeId)
            THEN [age EXCEPT ![p.nodeId] = 0] ELSE age
  /\ lastOp' = [op |-> "recv", len |-> p.len, nodeId |-> p.nodeId]
  /\ ops' = ops + 1
  /\ UNCHANGED <<now, eeprom, settingsDoc, currentData, lastControlAll, pc, idx,
                 sent, calls, cycleStart, fetched, repeated, faults, cmdSends,
                 edits, ticks, json>>

\* the upload loop finds node idx not live and goes on
PushSkip ==
  /\ pc = "push"
  /\ json = <<>>
  /\ ~PushLive(greenhouses[idx], now)
  /\ lastOp' = [op |-> "push", node |-> idx, pushed |-> FALSE,
                dataOk |-> FALSE, setOk |-> FALSE]
  /\ calls' = <<>>
  /\ pc' = AfterPush(idx).pc
  /\ idx' = AfterPush(idx).idx
  /\ UNCHANGED <<greenhouses, now, eeprom, settingsDoc, currentData,
                 lastControlAll, sent, cycleStart, fetched, repeated, faults,
                 cmdSends, ops, edits, ticks, age, json>>

\* one json.set of the upload loop: the liveness test is made before the
\* first one
PushField ==
  /\ pc = "push"
  /\ Len(json) < Len(SensorFields)
  /\ json = <<>> => PushLive(greenhouses[idx], now)
  /\ json' = Append(json, greenhouses[idx].sensor[SensorFields[Len(json) + 1]])
  /\ lastOp' = [op |-> "field", node |-> idx]
  /\ UNCHANGED <<greenhouses, now, eeprom, settingsDoc, currentData,
                 lastControlAll, pc, idx, sent, calls, cycleStart, fetched,
                 repeated, faults, cmdSends, ops, edits, ticks, age>>

\* the two setJSON calls of the upload loop, with results dataOk and setOk
PushWrite(dataOk, setOk) ==
  /\ pc = "push"
  /\ Len(json) = Len(SensorFields)
  /\ currentData' = IF dataOk
                    THEN [currentData EXCEPT ![idx] = <<JsonDoc(json)>>]
                    ELSE currentData
  /\ settingsDoc' = IF setOk
                    THEN [settingsDoc EXCEPT ![idx] = SettingsJson(greenhouses[idx])]
                    ELSE settingsDoc
  /\ json' = <<>>
  /\ lastOp' = [op |-> "push", node |-> idx, pushed |-> TRUE,
                dataOk |-> dataOk, setOk |-> setOk]
  /\ calls' = <<>>
  /\ faults' = IF ~(dataOk /\ setOk) THEN faults \cup {idx} ELSE faults
  /\ pc' = AfterPush(idx).pc
  /\ idx' = AfterPush(idx).idx
  /\ UNCHANGED <<greenhouses, now, eeprom, lastControlAll, sent, cycleStart,
                 fetched, repeated, cmdSends, ops, edits, ticks, age>>

NextRace ==
  \/ \E p \in Payloads : ReceiveCallback(p)
  \/ \E ready \in BOOLEAN : SyncStart(ready)
  \/ PushSkip
  \/ PushField
  \/ \E dataOk \in BOOLEAN, setOk \in BOOLEAN : PushWrite(dataOk, setOk)
  \/ \E fetchOk \in BOOLEAN, clearOk \in BOOLEAN, txOk \in BOOLEAN :
        PullNode(fetchOk, clearOk, txOk)

SpecRace == Init /\ [][NextRace]_vars

(* --------------- remote values outside the valid ranges --------------- *)

\* a settings document in which a remote client left a threshold of 999 and
\* a hysteresis of -1
WildDoc ==
  [EmptyDoc EXCEPT !.temperatureThreshold = <<9990>>, !.hysteresis = <<-10>>]

\* what the slots of the EEPROM hold at that boot: valid settings other than
\* the defaults, or a NaN and a number above the range
RangeBootRecords ==
  { [temperatureThreshold |-> Finite(300), hysteresis |-> Finite(10),
     autoMode |-> FALSE, manualCommand |-> CmdNone, schedule |-> DefaultSchedule],
    [temperatureThreshold |-> NaN, hysteresis |-> Finite(9990),
     autoMode |-> TRUE, manualCommand |-> CmdNone, schedule |-> DefaultSchedule] }

\* The hub has booted and has run loadSettingsFromEEPROM; the store holds
\* documents with values outside the valid ranges.
InitRange ==
  /\ eeprom \in [0 .. (MAX_GREENHOUSES - 1) -> RangeBootRecords]
  /\ greenhouses = LoadedSettings([i \in Slots |-> InitialGreenhouse], eeprom)
  /\ now = 0
  /\ settingsDoc \in [Nodes -> {EmptyDoc, WildDoc}]
  /\ currentData = [i \in Nodes |-> <<>>]
  /\ lastControlAll = <<>>
  /\ pc = "idle"
  /\ idx = 0
  /\ sent = <<>>
  /\ calls = <<>>
  /\ lastOp = [op |-> "boot"]
  /\ cycleStart = NoCycle
  /\ fetched = {}
  /\ repeated = {}
  /\ faults = {}
  /\ cmdSends = [i \in Nodes |-> 0]
  /\ ops = 0
  /\ ticks = 0
  /\ edits = 0
  /\ age = [i \in Nodes |-> 0]
  /\ json = <<>>

SpecRange == InitRange /\ [][Next]_vars

(* --------------------- the settings copy in EEPROM -------------------- *)

\* The hub boots with an EEPROM of any content; loadSettingsFromEEPROM and
\* saveSettingsToEEPROM are called on it in any order.
InitEeprom ==
  /\ greenhouses = [i \in Slots |-> InitialGreenhouse]
  /\ now = 0
  /\ eeprom \in [0 .. (MAX_GREENHOUSES - 1) -> StoredRecords]
  /\ settingsDoc = [i \in Nodes |-> EmptyDoc]
  /\ currentData = [i \in Nodes |-> <<>>]
  /\ lastControlAll = <<>>
  /\ pc = "idle"
  /\ idx = 0
  /\ sent = <<>>
  /\ calls = <<>>
  /\ lastOp = [op |-> "boot"]
  /\ cycleStart = NoCycle
  /\ fetched = {}
  /\ repeated = {}
  /\ faults = {}
  /\ cmdSends = [i \in Nodes |-> 0]
  /\ ops = 0
  /\ ticks = 0
  /\ edits = 0
  /\ age = [i \in Nodes |-> 0]
  /\ json = <<>>

LoadSettingsFromEEPROM ==
  /\ pc = "idle"
  /\ ops < MaxOps
  /\ greenhouses' = LoadedSettings(greenhouses, eeprom)
  /\ lastOp' = [op |-> "load", after |-> lastOp.op]
  /\ sent' = <<>>
  /\ calls' = <<>>
  /\ ops' = ops + 1
  /\ LeavesCycle
  /\ UNCHANGED <<now, eeprom, settingsDoc, currentData, lastControlAll, pc, idx,
                 cmdSends, edits, ticks, age, json>>

SaveSettingsToEEPROM ==
  /\ pc = "idle"
  /\ ops < MaxOps
  /\ eeprom' = SavedSettings(greenhouses)
  /\ lastOp' = [op |-> "save"]
  /\ sent' = <<>>
  /\ calls' = <<>>
  /\ ops' = ops + 1
  /\ LeavesCycle
  /\ UNCHANGED <<greenhouses, now, settingsDoc, currentData, lastControlAll, pc,
                 idx, cmdSends, edits, ticks, age, json>>

NextEeprom == LoadSettingsFromEEPROM \/ SaveSettingsToEEPROM

SpecEeprom == InitEeprom /\ [][NextEeprom]_vars


(* ------------------------------- claims -------------------------------- *)

\* the cycle has just ended
CycleEnded == pc = "idle" /\ lastOp.op = "pull"

\* the messages of the current operation that target node i
MessagesTo(i) == SelectSeq(sent, LAMBDA m : m.targetNodeId = i)

\* C1, as stated: a call of sendControlToNode for a node that is not live
\* (never seen, or last seen 300000 ms ago or more) hands nothing to the radio.
C1_NotLiveNotSent ==
  \A k \in DOMAIN calls : ~IsLive(calls[k].nodeId) => ~calls[k].transmitted

\* C1, amended: a call of sendControlToNode hands a message to the radio
\* exactly if the node has been seen (isOnline), so nothing is ever sent to a
\* node that was never seen, while a node that was seen and has timed out is
\* still sent to.
C1_NeverSeenNotSent ==
  /\ \A k \in DOMAIN calls :
        calls[k].transmitted = greenhouses[calls[k].nodeId].isOnline
  /\ \A k \in DOMAIN sent : greenhouses[sent[k].targetNodeId].isOnline
  /\ Len(sent) >= Cardinality({k \in DOMAIN calls : calls[k].transmitted})

\* C1: sendControlToNode was called for a node that was never seen, and for
\* no other, and nothing was sent
C1_Witness ==
  /\ calls # <<>>
  /\ \A k \in DOMAIN calls : ~greenhouses[calls[k].nodeId].isOnline
  /\ sent = <<>>

\* C2, as stated: after every call of sendControlToNode the node's
\* manualCommand is none, whatever its liveness and the result of the send.
C2_ManualCommandNoneAfterCall ==
  \A k \in DOMAIN calls : calls[k].after = CmdNone

\* the command a settings document asks for
CommandIn(doc) == ManualCmdOf(doc.manualControl[1])

\* C3, as stated, for a live node and a cycle in which no call to the store
\* failed for it: a manualControl of open, close or stop that the document
\* holds when the cycle begins has, when the cycle ends, been sent to the
\* node as the mapped command, is none locally and is cleared remotely.
C3_RemoteCommandConsumed ==
  CycleEnded =>
    \A i \in Nodes :
      (IsLive(i) /\ i \notin faults /\ HasManualCmd(cycleStart.docs[i])) =>
        /\ \E k \in DOMAIN sent :
              /\ sent[k].targetNodeId = i
              /\ sent[k].manualCommand = CommandIn(cycleStart.docs[i])
        /\ greenhouses[i].settings.manualCommand = CmdNone
        /\ settingsDoc[i].manualControl = <<>>

\* C4, as stated: for one write of manualControl into a node's document, at
\* most one ControlMessage carrying that command is ever sent to the node,
\* also when the write that clears the remote key fails.
C4_CommandSentAtMostOnce == \A i \in Nodes : cmdSends[i] <= 1

\* C5, as stated, for a cycle in which no call to the store failed for the
\* node: a recognized key whose remote value differs from the local one when
\* the cycle begins holds the remote value locally when the cycle ends,
\* whether or not the node is live.
C5_RemoteEditOverrides ==
  CycleEnded =>
    \A i \in Nodes \ faults :
      LET d == cycleStart.docs[i]
          s0 == cycleStart.settings[i]
          s1 == greenhouses[i].settings
      IN
      /\ (d.temperatureThreshold # <<>>
            /\ d.temperatureThreshold[1] # s0.temperatureThreshold)
         => s1.temperatureThreshold = d.temperatureThreshold[1]
      /\ (d.hysteresis # <<>> /\ d.hysteresis[1] # s0.hysteresis)
         => s1.hysteresis = d.hysteresis[1]
      /\ (d.mode # <<>> /\ (d.mode[1] = "auto") # s0.autoMode)
         => s1.autoMode = (d.mode[1] = "auto")

\* C6, as stated: in one pull phase each node is sent at most one
\* ControlMessage, and that one carries the settings the node holds when all
\* keys of its document have been processed.
C6_OneMessagePerNode ==
  CycleEnded =>
    \A i \in Nodes :
      LET M == MessagesTo(i) IN
      /\ Len(M) <= 1
      /\ Len(M) = 1 =>
           /\ M[1].tempThreshold = greenhouses[i].settings.temperatureThreshold
           /\ M[1].hysteresis = greenhouses[i].settings.hysteresis
           /\ M[1].autoMode = greenhouses[i].settings.autoMode

\* the keys of doc the pull loop acts on for settings s, as a set of names
DifferingKeys(doc, s) ==
  {key \in {"temperatureThreshold", "hysteresis", "mode", "manualControl"} :
     CASE key = "temperatureThreshold" ->
            doc.temperatureThreshold # <<>>
            /\ doc.temperatureThreshold[1] # s.temperatureThreshold
       [] key = "hysteresis" ->
            doc.hysteresis # <<>> /\ doc.hysteresis[1] # s.hysteresis
       [] key = "mode" ->
            doc.mode # <<>> /\ (doc.mode[1] = "auto") # s.autoMode
       [] OTHER -> HasManualCmd(doc)}

\* C6, amended: the pull loop calls sendControlToNode once for every
\* recognized key it acts on (a threshold, hysteresis or mode that differs,
\* a manualControl of open, close or stop), right after applying that key;
\* a node that has been seen is thus sent as many messages as keys were acted
\* on, all addressed to it, the last one carrying every applied value and the
\* pulled command, and a node never seen is sent none. When only mode goes
\* from auto to manual for a seen node, exactly one message with
\* autoMode = false is sent.
C6_OneMessagePerKey ==
  [][(lastOp'.op = "pull" /\ lastOp'.fetched) =>
       LET i == lastOp'.node
           doc == settingsDoc[i]
           s == greenhouses[i].settings
           keys == DifferingKeys(doc, s)
           k == Cardinality(keys)
           seen == greenhouses[i].isOnline
           new == SubSeq(sent', Len(sent) + 1, Len(sent'))
       IN
       /\ Len(calls') = k
       /\ Len(new) = IF seen THEN k ELSE 0
       /\ \A j \in DOMAIN new : new[j].targetNodeId = i
       /\ (seen /\ k >= 1) =>
            LET last == new[Len(new)] IN
            /\ last.tempThreshold =
                 IF "temperatureThreshold" \in keys
                 THEN doc.temperatureThreshold[1] ELSE s.temperatureThreshold
            /\ last.hysteresis =
                 IF "hysteresis" \in keys THEN doc.hysteresis[1] ELSE s.hysteresis
            /\ last.autoMode =
                 IF "mode" \in keys THEN doc.mode[1] = "auto" ELSE s.autoMode
            /\ "manualControl" \in keys => last.manualCommand = CommandIn(doc)
       /\ (seen /\ keys = {"mode"} /\ s.autoMode) =>
            /\ Len(new) = 1
            /\ new[1].autoMode = FALSE
  ]_vars

\* C6: the pull of one document has sent a seen node more than one message
C6_Witness ==
  /\ lastOp.op = "pull"
  /\ lastOp.fetched
  /\ greenhouses[lastOp.node].isOnline
  /\ Len(calls) >= 2
  /\ Len(MessagesTo(lastOp.node)) >= 2

\* C7, as stated: when a cycle follows a cycle directly, with no write of a
\* remote client in between, then for every node whose document both cycles
\* read, the second cycle sends the node nothing and leaves its settings as
\* the first cycle left them.
C7_SecondPullSilent ==
  CycleEnded =>
    \A i \in repeated \cap fetched :
      /\ MessagesTo(i) = <<>>
      /\ greenhouses[i].settings = cycleStart.settings[i]

\* C8: onDataReceived changes no record when the payload has another length
\* than SensorData or a node id outside 1..N; otherwise it changes, of node
\* k = nodeId alone, the sensor snapshot, isOnline (to true) and lastSeen (to
\* now), and leaves the settings of k and every other record as they were.
C8_IngestFrame ==
  [][lastOp'.op = "recv" =>
       LET k == lastOp'.nodeId IN
       IF lastOp'.len # SensorDataSize \/ k \notin Nodes
       THEN greenhouses' = greenhouses
       ELSE /\ \A j \in Slots \ {k} : greenhouses'[j] = greenhouses[j]
            /\ greenhouses'[k].settings = greenhouses[k].settings
            /\ greenhouses'[k].sensor.nodeId = k
            /\ \E p \in Payloads : greenhouses'[k].sensor = SensorOf(p)
            /\ greenhouses'[k].isOnline
            /\ greenhouses'[k].lastSeen = now
  ]_vars

\* C8: a whole SensorData of a valid node has been taken in while that node
\* held settings other than the defaults
C8_Witness ==
  /\ lastOp.op = "recv"
  /\ lastOp.len = SensorDataSize
  /\ lastOp.nodeId \in Nodes
  /\ greenhouses[lastOp.nodeId].isOnline
  /\ greenhouses[lastOp.nodeId].sensor.nodeId = lastOp.nodeId
  /\ greenhouses[lastOp.nodeId].settings # DefaultSettings

\* C9, as stated: sendControlToAllNodes processes exactly the nodes the push
\* loop would upload at the same instant (isOnline and now - lastSeen <
\* 300000); a node at 300000 ms or more, or never seen, is left alone.
C9_BulkProcessesLiveNodes ==
  lastOp.op = "bulk" =>
    {calls[k].nodeId : k \in DOMAIN calls}
      = {i \in Nodes : PushLive(greenhouses[i], now)}

\* C10: for every live node, sendControlToAllNodes(command) sends exactly one
\* ControlMessage addressed to it, carrying command and the node's threshold
\* and hysteresis, which stay as they were; Open and Close turn autoMode off
\* locally and in the message, Stop leaves autoMode as it was; manualCommand
\* is none when the call returns.
C10_BulkCommand ==
  [][lastOp'.op = "bulk" =>
       \A i \in Nodes :
         PushLive(greenhouses[i], now) =>
           LET M == SelectSeq(sent', LAMBDA m : m.targetNodeId = i)
               s == greenhouses[i].settings
               t == greenhouses'[i].settings
               c == lastOp'.command
           IN
           /\ Len(M) = 1
           /\ M[1].manualCommand = c
           /\ M[1].tempThreshold = s.temperatureThreshold
           /\ M[1].hysteresis = s.hysteresis
           /\ c \in {CmdOpen, CmdClose} => (~M[1].autoMode /\ ~t.autoMode)
           /\ c = CmdStop => (M[1].autoMode = s.autoMode /\ t.autoMode = s.autoMode)
           /\ t.manualCommand = CmdNone
           /\ t.temperatureThreshold = s.temperatureThreshold
           /\ t.hysteresis = s.hysteresis
           /\ t.schedule = s.schedule
  ]_vars

\* C10: a bulk Open or Close has reached a live node whose threshold is not
\* the default one and has turned it to manual mode
C10_Witness ==
  /\ lastOp.op = "bulk"
  /\ lastOp.command \in {CmdOpen, CmdClose}
  /\ \E i \in Nodes :
        /\ IsLive(i)
        /\ Len(MessagesTo(i)) = 1
        /\ greenhouses[i].settings.temperatureThreshold # DefaultThreshold
        /\ ~greenhouses[i].settings.autoMode

\* C11: when the store is not ready the cycle ends at once and changes
\* nothing; when the settings document of node i cannot be fetched or is not
\* a JSON object, the pull of node i leaves every local record as it was and
\* sends nothing, and the loop goes on to node i + 1 (or ends after node N);
\* a node whose document is fetched as a JSON object is reconciled whatever
\* happened to the nodes before it; when the cycle ends, every node whose
\* document was not read holds the settings it held when the cycle began and
\* has been sent no ControlMessage by the cycle.
C11_FailedFetchSkipsNode ==
  [][/\ lastOp'.op = "notReady" =>
          /\ greenhouses' = greenhouses
          /\ eeprom' = eeprom
          /\ settingsDoc' = settingsDoc
          /\ currentData' = currentData
          /\ sent' = <<>>
          /\ pc' = "idle"
     /\ lastOp'.op = "pull" =>
          LET i == lastOp'.node IN
          IF ~lastOp'.fetchOk \/ settingsDoc[i] = EmptyDoc
          THEN /\ greenhouses' = greenhouses
               /\ eeprom' = eeprom
               /\ settingsDoc' = settingsDoc
               /\ sent' = sent
               /\ calls' = <<>>
               /\ i \notin fetched'
               /\ IF i < MAX_GREENHOUSES
                  THEN pc' = "pull" /\ idx' = i + 1
                  ELSE pc' = "idle"
          ELSE i \in fetched'
     /\ (pc' = "idle" /\ lastOp'.op = "pull") =>
          \A i \in Nodes \ fetched' :
            /\ greenhouses'[i].settings = cycleStart'.settings[i]
            /\ \A k \in DOMAIN sent' : sent'[k].targetNodeId # i
  ]_vars

\* C11: a cycle has ended in which the document of node 1, which held
\* values to apply and a command, could not be fetched, and node 2 was
\* reconciled and sent its messages all the same
C11_Witness ==
  /\ CycleEnded
  /\ cycleStart.docs[1] = ClientDoc
  /\ 1 \in faults
  /\ 1 \notin fetched
  /\ greenhouses[1].settings = DefaultSettings
  /\ 2 \in fetched
  /\ MessagesTo(2) # <<>>
  /\ greenhouses[2].settings # cycleStart.settings[2]

\* a stored float is a finite number of the range 0 .. max
InRange(f, max) == f.class = "finite" /\ f.tenths >= 0 /\ f.tenths <= max

\* C12: after loadSettingsFromEEPROM, whatever the slots held (NaN, an
\* infinity, a negative number, a number above the range), every node's
\* temperatureThreshold lies in [0,50] and its hysteresis in [0,5]; a stored
\* threshold that is NaN or outside [0,50] has become exactly 25.0, a stored
\* hysteresis that is NaN or outside [0,5] exactly 0.5, and a field that is
\* in range is taken as stored, whatever the other field holds.
C12_LoadValidates ==
  [][lastOp'.op = "load" =>
       \A i \in Nodes :
         LET r == eeprom[i - 1]
             s == greenhouses'[i].settings
         IN
         /\ s.temperatureThreshold \in 0 .. MaxThreshold
         /\ s.hysteresis \in 0 .. MaxHysteresis
         /\ s.temperatureThreshold =
              IF InRange(r.temperatureThreshold, MaxThreshold)
              THEN r.temperatureThreshold.tenths ELSE DefaultThreshold
         /\ s.hysteresis =
              IF InRange(r.hysteresis, MaxHysteresis)
              THEN r.hysteresis.tenths ELSE DefaultHysteresis
  ]_vars

\* C12: a load has met a NaN threshold next to a hysteresis at the upper end
\* of its range in slot 0, and a threshold at the upper end of its range next
\* to an infinite hysteresis in slot 1
C12_Witness ==
  /\ lastOp.op = "load"
  /\ eeprom[0].temperatureThreshold = NaN
  /\ eeprom[0].hysteresis = Finite(MaxHysteresis)
  /\ eeprom[1].temperatureThreshold = Finite(MaxThreshold)
  /\ eeprom[1].hysteresis = PosInf
  /\ greenhouses[1].settings.temperatureThreshold = DefaultThreshold
  /\ greenhouses[1].settings.hysteresis = MaxHysteresis
  /\ greenhouses[2].settings.temperatureThreshold = MaxThreshold
  /\ greenhouses[2].settings.hysteresis = DefaultHysteresis

\* C13: when every node's temperatureThreshold is in [0,50] and hysteresis
\* in [0,5], the ends 0, 50 and 5 included, saveSettingsToEEPROM puts the
\* settings of node i into slot i-1 and a loadSettingsFromEEPROM that follows
\* gives every node back its own threshold, hysteresis, autoMode,
\* manualCommand and schedule, and changes nothing else of the table.
C13_SaveLoadRoundTrip ==
  [][/\ lastOp'.op = "save" =>
          /\ greenhouses' = greenhouses
          /\ \A i \in Nodes :
                /\ eeprom'[i - 1].temperatureThreshold.tenths
                     = greenhouses[i].settings.temperatureThreshold
                /\ eeprom'[i - 1].autoMode = greenhouses[i].settings.autoMode
     /\ (lastOp'.op = "load" /\ lastOp'.after = "save") =>
          \A i \in Nodes :
            LET s == greenhouses[i].settings IN
            (/\ s.temperatureThreshold \in 0 .. MaxThreshold
             /\ s.hysteresis \in 0 .. MaxHysteresis)
            => /\ greenhouses'[i].settings = s
               /\ greenhouses'[i] = greenhouses[i]
               /\ greenhouses'[0] = greenhouses[0]
  ]_vars

\* C13: settings at the ends of both ranges, different for the two nodes in
\* every field, have been saved and loaded again
C13_Witness ==
  /\ lastOp.op = "load"
  /\ lastOp.after = "save"
  /\ greenhouses[1].settings =
       [temperatureThreshold |-> 0, hysteresis |-> MaxHysteresis,
        autoMode |-> TRUE, manualCommand |-> CmdNone, schedule |-> DefaultSchedule]
  /\ greenhouses[2].settings =
       [temperatureThreshold |-> MaxThreshold, hysteresis |-> 0,
        autoMode |-> FALSE, manualCommand |-> CmdOpen, schedule |-> OtherSchedule]
  /\ eeprom = SavedSettings(greenhouses)

C15_PushBeforePull ==
  [][/\ lastOp'.op = "push" =>
          LET i == lastOp'.node IN
          /\ IF i = 1 THEN lastOp.op = "sync"
                      ELSE lastOp.op = "push" /\ lastOp.node = i - 1
          /\ fetched' = {}
          /\ sent' = <<>>
          /\ eeprom' = eeprom
          /\ SettingsOf(greenhouses) = cycleStart.settings
          /\ SettingsOf(greenhouses') = cycleStart.settings
          /\ lastOp'.dataOk => currentData'[i] = <<greenhouses'[i].sensor>>
          /\ lastOp'.setOk =>
               /\ settingsDoc'[i].temperatureThreshold
                    = <<cycleStart.settings[i].temperatureThreshold>>
               /\ settingsDoc'[i].hysteresis = <<cycleStart.settings[i].hysteresis>>
               /\ settingsDoc'[i].mode =
                    <<IF cycleStart.settings[i].autoMode THEN "auto" ELSE "manual">>
     /\ lastOp'.op = "pull" =>
          LET i == lastOp'.node IN
          /\ IF i = 1 THEN lastOp.op = "push" /\ lastOp.node = MAX_GREENHOUSES
                      ELSE lastOp.op = "pull" /\ lastOp.node = i - 1
          /\ currentData' = currentData
  ]_vars

\* C15: a cycle has ended in which the download changed the settings of the
\* live node 1, and the telemetry of node 1 had been uploaded before
C15_Witness ==
  /\ CycleEnded
  /\ IsLive(1)
  /\ 1 \in fetched
  /\ currentData[1] = <<greenhouses[1].sensor>>
  /\ greenhouses[1].settings # cycleStart.settings[1]

\* C16, as stated: when no recognized key of node i's document differs from
\* the local value and the document holds no command to apply, the download
\* step of node i does not call saveSettingsToEEPROM and leaves the EEPROM
\* as it is.
C16_SaveOnlyWhenDirty ==
  [][lastOp'.op = "pull" =>
       LET i == lastOp'.node IN
       DifferingKeys(settingsDoc[i], greenhouses[i].settings) = {}
       => (~lastOp'.saved /\ eeprom' = eeprom)
  ]_vars

\* C17, as stated: from a state loadSettingsFromEEPROM produced, through any
\* cycles, bulk commands and ingestions, with any remote values, every
\* node's temperatureThreshold stays in [0,50] and its hysteresis in [0,5],
\* and no ControlMessage carries a threshold or hysteresis outside of them.
C17_SettingsInRange ==
  /\ \A i \in Nodes :
        /\ greenhouses[i].settings.temperatureThreshold \in 0 .. MaxThreshold
        /\ greenhouses[i].settings.hysteresis \in 0 .. MaxHysteresis
  /\ \A k \in DOMAIN sent :
        /\ sent[k].tempThreshold \in 0 .. MaxThreshold
        /\ sent[k].hysteresis \in 0 .. MaxHysteresis

\* C18, as stated: a ControlMessage that carries a command was sent by the
\* operation that set the command (the bulk command in progress, or the
\* download of a manualControl the document held in this cycle); when a cycle
\* or a bulk command has ended every node's manualCommand is none; and every
\* record saveSettingsToEEPROM has written holds manualCommand = none.
C18_NoStaleCommand ==
  /\ \A k \in DOMAIN sent :
        sent[k].manualCommand # CmdNone =>
          IF lastOp.op = "bulk"
          THEN sent[k].manualCommand = lastOp.command
          ELSE /\ HasManualCmd(cycleStart.docs[sent[k].targetNodeId])
               /\ sent[k].manualCommand
                    = CommandIn(cycleStart.docs[sent[k].targetNodeId])
  /\ (CycleEnded \/ lastOp.op = "bulk") =>
        \A i \in Nodes : greenhouses[i].settings.manualCommand = CmdNone
  /\ (lastOp.op = "pull" /\ lastOp.saved) =>
        \A a \in DOMAIN eeprom : eeprom[a].manualCommand = CmdNone

\* C19, as stated for the push phase, and for sendControlToAllNodes beyond
\* 300000 ms: a node whose latest telemetry was taken in 300000 ms ago or
\* more, in real time, is not uploaded by the push loop, and a node whose
\* latest telemetry is more than 300000 ms old is passed by in
\* sendControlToAllNodes, also when the counter of millis() has wrapped
\* since.
C19_StaleStaysStale ==
  /\ (lastOp.op = "push" /\ age[lastOp.node] >= STALE_TIMEOUT) => ~lastOp.pushed
  /\ lastOp.op = "bulk" =>
        \A k \in DOMAIN calls : age[calls[k].nodeId] <= STALE_TIMEOUT

\* C20, part (a) as stated: with onDataReceived running between any two
\* steps of syncWithFirebase, every currentData document in the remote store
\* equals, field for field, one telemetry message of that node, never a mix
\* of two messages.
C20_CurrentDataIsOneMessage ==
  \A i \in Nodes :
    currentData[i] # <<>> =>
      \E p \in Payloads :
        /\ p.len = SensorDataSize
        /\ p.nodeId = i
        /\ currentData[i][1] = SensorOf(p)

=============================================================================
